---- MODULE Spec2Model ----
(***************************************************************************)
(* HeptaLearn AI: the application state of App.tsx, the canvas controller  *)
(* of the Whiteboard component, the chat sidebar and the Gemini service    *)
(* boundary, as a state machine.                                           *)
(*                                                                         *)
(* Numbers of the canvas (pan, scale, card positions, drag offsets) are    *)
(* exact rationals <<n, d>> in lowest terms with d > 0; the arithmetic of  *)
(* the handlers is carried out on them as written in the source.           *)
(***************************************************************************)
EXTENDS Integers, Sequences, FiniteSets, TLC

(***************************************************************************)
(* Rational arithmetic                                                     *)
(***************************************************************************)
Abs(i) == IF i < 0 THEN -i ELSE i

RECURSIVE GCD(_, _)
GCD(a, b) == IF b = 0 THEN a ELSE GCD(b, a % b)

\* n/d in lowest terms, denominator positive (d # 0)
Rat(n, d) ==
    LET g == GCD(Abs(n), Abs(d))
        s == IF d < 0 THEN -1 ELSE 1
    IN  <<(s * n) \div g, (s * d) \div g>>

R(i) == <<i, 1>>
RAdd(a, b) == Rat(a[1] * b[2] + b[1] * a[2], a[2] * b[2])
RSub(a, b) == Rat(a[1] * b[2] - b[1] * a[2], a[2] * b[2])
RMul(a, b) == Rat(a[1] * b[1], a[2] * b[2])
RDiv(a, b) == Rat(a[1] * b[2], a[2] * b[1])
RLe(a, b) == a[1] * b[2] <= b[1] * a[2]
RLt(a, b) == a[1] * b[2] < b[1] * a[2]
RMin(a, b) == IF RLe(a, b) THEN a ELSE b
RMax(a, b) == IF RLe(a, b) THEN b ELSE a

(***************************************************************************)
(* Program constants                                                       *)
(***************************************************************************)
NULL == "null"

CARD_WIDTH == 450
CARD_HEIGHT == 600
VERTICAL_GAP == 60
COLUMN_GAP == 200

\* scale clamp of handleWheel / zoomIn / zoomOut: 0.1 and 4
MinScale == Rat(1, 10)
MaxScale == R(4)
\* zoom button step 0.1, wheel factor 0.001
ZoomStep == Rat(1, 10)
WheelFactor == Rat(1, 1000)

(***************************************************************************)
(* Bounds of the model and input sets                                      *)
(***************************************************************************)
\* number of canvas events explored from the state in which the canvas opens
MaxEvents == 4
\* number of imports (text or files) started in one session
MaxImports == 2

\* pointer positions (clientX, clientY) of mouse events
Points == { [x |-> 150, y |-> 120], [x |-> 180, y |-> 140] }

\* wheel events: modifier key (ctrlKey || metaKey), deltaX, deltaY
WheelEvents ==
    { [mod |-> TRUE,  deltaX |-> 0,  deltaY |-> -2950],
      [mod |-> TRUE,  deltaX |-> 0,  deltaY |-> 850],
      [mod |-> FALSE, deltaX |-> 10, deltaY |-> -30] }

\* keydown events: the key and the tagName of the event target
KeyEvents ==
    { [key |-> "ArrowRight", tagName |-> "DIV"],
      [key |-> "ArrowDown",  tagName |-> "BODY"],
      [key |-> "ArrowLeft",  tagName |-> "DIV"],
      [key |-> "ArrowUp",    tagName |-> "BODY"],
      [key |-> "Escape",     tagName |-> "BODY"],
      [key |-> "ArrowRight", tagName |-> "TEXTAREA"],
      [key |-> "Escape",     tagName |-> "INPUT"] }

\* clientWidth, clientHeight of the canvas container
ClientSizes == { [w |-> 1001, h |-> 700] }

(***************************************************************************)
(* State                                                                   *)
(***************************************************************************)
VARIABLES
    \* App.tsx (App)
    step, cards, connections, selectedCardId, chatHistory, isProcessing,
    targetLanguage, inputText, showChat,
    \* handleFileUpload / handleProcessText in flight
    upload,
    \* Whiteboard
    isDragging, dragOffset, activeDragId, pan, scale, isPanning,
    lastMousePos, isNavOpen, connectingFromId,
    \* ChatSidebar
    input, isLoading, useThinking,
    \* the ChatSidebar instance mounted (it is mounted anew each time the
    \* sidebar is shown) and the generateAIResponse calls in flight
    chatInstance, chatReq,
    \* environment: process.env.API_KEY present, Date.now()
    apiKey, now,
    \* observation: the event just handled, the drag gesture's start,
    \* alerts shown, number of canvas events so far
    \* and of imports started so far, a markdown text with the sections
    \* it is parsed into
    lastEvent, dragStart, alerts, nEvents, nImports, parsed

appVars == <<step, cards, connections, selectedCardId, chatHistory,
             isProcessing, targetLanguage, inputText, showChat>>
boardVars == <<isDragging, dragOffset, activeDragId, pan, scale, isPanning,
               lastMousePos, isNavOpen, connectingFromId>>
chatVars == <<input, isLoading, useThinking, chatInstance, chatReq>>
envVars == <<apiKey, now>>
obsVars == <<lastEvent, dragStart, alerts, nEvents, nImports, parsed>>
vars == <<appVars, upload, boardVars, chatVars, envVars, obsVars>>

(***************************************************************************)
(* Markdown files (markdownUtils.ts); a text is a sequence of characters   *)
(***************************************************************************)
Chars == { "#", " ", "a", "\n" }

\* \s, for the characters used here
IsSpace(c) == c \in { " ", "\n" }

\* text.split('\n'), from position k on, `line` being the line begun
RECURSIVE SplitFrom(_, _, _)
SplitFrom(text, k, line) ==
    IF k > Len(text) THEN << line >>
    ELSE IF text[k] = "\n" THEN << line >> \o SplitFrom(text, k + 1, <<>>)
    ELSE SplitFrom(text, k + 1, Append(line, text[k]))

SplitLines(text) == SplitFrom(text, 1, <<>>)

\* lines.join('\n')
RECURSIVE JoinLines(_)
JoinLines(lines) ==
    IF Len(lines) = 0 THEN <<>>
    ELSE IF Len(lines) = 1 THEN lines[1]
    ELSE lines[1] \o << "\n" >> \o JoinLines(Tail(lines))

RECURSIVE TrimStart(_)
TrimStart(str) ==
    IF Len(str) > 0 /\ IsSpace(str[1]) THEN TrimStart(Tail(str)) ELSE str

RECURSIVE TrimEnd(_)
TrimEnd(str) ==
    IF Len(str) > 0 /\ IsSpace(str[Len(str)])
    THEN TrimEnd(SubSeq(str, 1, Len(str) - 1)) ELSE str

\* String.prototype.trim
Trim(str) == TrimEnd(TrimStart(str))

RECURSIVE StripHashes(_)
StripHashes(str) ==
    IF Len(str) > 0 /\ str[1] = "#" THEN StripHashes(Tail(str)) ELSE str

\* /^#{1,2}\s/.test(line)
IsHeaderLine(line) ==
    /\ Len(line) >= 2
    /\ line[1] = "#"
    /\ \/ IsSpace(line[2])
       \/ Len(line) >= 3 /\ line[2] = "#" /\ IsSpace(line[3])

\* line.replace(/^#+\s+/, '').trim()
HeaderTitle(line) ==
    LET rest == StripHashes(line)
    IN  IF Len(rest) < Len(line) /\ Len(rest) > 0 /\ IsSpace(rest[1])
        THEN Trim(TrimStart(rest))
        ELSE Trim(line)

\* the section pushed for the lines collected so far
PushedSection(currentTitle, currentContent) ==
    [title |-> currentTitle, content |-> Trim(JoinLines(currentContent))]

\* the loop of a parser that drops the lines before the first header
RECURSIVE ParseLines_NoPreamble(_, _, _, _, _)
ParseLines_NoPreamble(lines, i, sections, currentTitle, currentContent) ==
    IF i > Len(lines)
    THEN IF Len(currentContent) > 0 /\ IsHeaderLine(currentContent[1])
         THEN Append(sections, PushedSection(currentTitle, currentContent))
         ELSE sections
    ELSE IF IsHeaderLine(lines[i])
    THEN ParseLines_NoPreamble(lines, i + 1,
             IF Len(currentContent) > 0 /\ IsHeaderLine(currentContent[1])
             THEN Append(sections, PushedSection(currentTitle, currentContent))
             ELSE sections,
             HeaderTitle(lines[i]), << lines[i] >>)
    ELSE ParseLines_NoPreamble(lines, i + 1, sections, currentTitle,
                               Append(currentContent, lines[i]))

\* the loop of parseMarkdownFile from line i on (counted from 1), and the
\* push of the final section
RECURSIVE ParseLines(_, _, _, _, _)
ParseLines(lines, i, sections, currentTitle, currentContent) ==
    IF i > Len(lines)
    THEN IF Len(currentContent) > 0
         THEN Append(sections, PushedSection(currentTitle, currentContent))
         ELSE sections
    ELSE IF IsHeaderLine(lines[i])
    THEN ParseLines(lines, i + 1,
             IF Len(currentContent) > 0
             THEN Append(sections, PushedSection(currentTitle, currentContent))
             ELSE sections,
             HeaderTitle(lines[i]), << lines[i] >>)
    ELSE ParseLines(lines, i + 1, sections, currentTitle,
                    Append(currentContent, lines[i]))

\* parseMarkdownFile for a file of the given name and text
parseMarkdownFile(name, text) ==
    LET sections == ParseLines(SplitLines(text), 1, <<>>, name, <<>>)
    IN  IF Len(sections) = 0 /\ Len(Trim(text)) > 0
        THEN << [title |-> name, content |-> text] >>
        ELSE sections


(***************************************************************************)
(* Cards and connections built by the imports (App.tsx)                    *)
(***************************************************************************)
ToLowerCase(ext) ==
    CASE ext = "PDF" -> "pdf"
      [] ext = "MD" -> "md"
      [] OTHER -> ext

FileName(file) == file.base \o "." \o file.ext
isPdf(file) == ToLowerCase(file.ext) = "pdf"
isMd(file) == ToLowerCase(file.ext) = "md"

\* t.trim() is empty, for the texts used here
Blank(t) == t \in { "", " " }

\* extractTextFromPdf keeps the pages whose text is not blank, with their
\* page numbers; file.pages[k] is the text of page k
RECURSIVE PdfPagesFrom(_, _)
PdfPagesFrom(pages, k) ==
    IF k > Len(pages) THEN <<>>
    ELSE (IF ~Blank(pages[k]) THEN << [pageNumber |-> k, text |-> pages[k]] >>
          ELSE <<>>) \o PdfPagesFrom(pages, k + 1)

extractTextFromPdf(file) == PdfPagesFrom(file.pages, 1)

\* sections of one supported file: title and text
Sections(file) ==
    IF isPdf(file)
    THEN LET pages == extractTextFromPdf(file)
         IN  [k \in 1..Len(pages) |->
                 [title |-> FileName(file) \o " - Page " \o ToString(pages[k].pageNumber),
                  text |-> pages[k].text]]
    ELSE [k \in 1..Len(file.mdSections) |->
             [title |-> FileName(file) \o " - " \o file.mdSections[k].title,
              text |-> file.mdSections[k].content]]

\* what one call of ai.models.generateContent does: it returns a response
\* with a text, it returns a response without text, or it throws
SdkOutcomes == { "text", "empty", "error" }

\* the text of the translation service's response for `text`
Translated(text, targetLang) == "[" \o targetLang \o "] " \o text

\* response.text of a translation call
TranslationResponseText(text, targetLang, outcome) ==
    IF outcome = "text" THEN Translated(text, targetLang) ELSE ""

\* translateContent with the fallback on error returning an empty string
translateContent_EmptyOnError(text, targetLang, key, outcome) ==
    IF ~key THEN text
    ELSE IF outcome = "error" THEN ""
    ELSE IF TranslationResponseText(text, targetLang, outcome) # ""
         THEN TranslationResponseText(text, targetLang, outcome)
         ELSE text

\* translateContent: `key` says whether process.env.API_KEY is set, `outcome`
\* what the SDK call does
translateContent(text, targetLang, key, outcome) ==
    IF ~key THEN text
    ELSE IF outcome = "error" THEN text
    ELSE IF TranslationResponseText(text, targetLang, outcome) # ""
         THEN TranslationResponseText(text, targetLang, outcome)
         ELSE text

\* cards of file number i (counted from 0) from its processed sections
FileCardId(i, idx, t) ==
    "file-" \o ToString(i) \o "-section-" \o ToString(idx) \o "-" \o ToString(t)

FileCards(i, processedSections, lang, currentXPosition, t) ==
    [k \in 1..Len(processedSections) |->
        [id |-> FileCardId(i, k - 1, t),
         title |-> processedSections[k].title \o " " \o
                   (IF lang # "Original" THEN "(" \o lang \o ")" ELSE ""),
         content |-> processedSections[k].text,
         x |-> R(currentXPosition),
         y |-> R(100 + (k - 1) * (CARD_HEIGHT + VERTICAL_GAP)),
         width |-> CARD_WIDTH,
         height |-> CARD_HEIGHT,
         type |-> "source",
         color |-> IF i % 2 = 0 THEN "#dcfce7" ELSE "#d1fae5"]]

\* the connections drawn from each card back to its predecessor
SequentialConnections_Reversed(allNewCards) ==
    [k \in 1..(Len(allNewCards) - 1) |->
        [id |-> "conn-auto-" \o ToString(k - 1),
         fromCardId |-> allNewCards[k + 1].id,
         toCardId |-> allNewCards[k].id]]

\* the sequential connections of handleFileUpload
SequentialConnections(allNewCards) ==
    [k \in 1..(Len(allNewCards) - 1) |->
        [id |-> "conn-auto-" \o ToString(k - 1),
         fromCardId |-> allNewCards[k].id,
         toCardId |-> allNewCards[k + 1].id]]

\* the single card of handleProcessText
TextCard(contentToUse, lang) ==
    [id |-> "1",
     title |-> IF lang # "Original" THEN "Source Material (" \o lang \o ")"
               ELSE "Source Material",
     content |-> contentToUse,
     x |-> R(100), y |-> R(100), width |-> 450, height |-> 600,
     type |-> "source", color |-> "#dcfce7"]


(***************************************************************************)
(* App.tsx callbacks handed to the Whiteboard                              *)
(***************************************************************************)
\* cards.findIndex(c => c.id === id), counted from 0; -1 when there is none
findIndex(cs, id) ==
    IF \E k \in 1..Len(cs) : cs[k].id = id
    THEN (CHOOSE k \in 1..Len(cs) :
              /\ cs[k].id = id
              /\ \A j \in 1..(k - 1) : cs[j].id # id) - 1
    ELSE -1

\* onCardUpdate: setCards(cards.map(c => c.id === updated.id ? updated : c))
onCardUpdate(updated) ==
    cards' = [k \in 1..Len(cards) |->
                 IF cards[k].id = updated.id THEN updated ELSE cards[k]]

\* onCardSelect that records the card's title
onCardSelect_ByTitle(card) ==
    /\ selectedCardId' = card.title
    /\ showChat' = TRUE

\* onCardSelect
onCardSelect(card) ==
    /\ selectedCardId' = card.id
    /\ showChat' = TRUE

\* handleCreateConnection without the check for an existing pair
handleCreateConnection_NoDupCheck(fromId, toId) ==
    IF fromId = toId THEN UNCHANGED <<connections, now>>
    ELSE \E t \in {now, now + 1} :
            /\ now' = t
            /\ connections' = Append(connections,
                   [id |-> "conn-" \o ToString(t),
                    fromCardId |-> fromId, toCardId |-> toId])

\* connections.some(c => c.fromCardId === fromId && c.toCardId === toId)
ConnectionExists(fromId, toId) ==
    \E k \in 1..Len(connections) :
        connections[k].fromCardId = fromId /\ connections[k].toCardId = toId

\* handleCreateConnection; the connection id is taken from Date.now()
handleCreateConnection(fromId, toId) ==
    IF fromId = toId THEN UNCHANGED <<connections, now>>
    ELSE IF ConnectionExists(fromId, toId) THEN UNCHANGED <<connections, now>>
    ELSE \E t \in {now, now + 1} :
            /\ now' = t
            /\ connections' = Append(connections,
                   [id |-> "conn-" \o ToString(t),
                    fromCardId |-> fromId, toCardId |-> toId])

(***************************************************************************)
(* Whiteboard handlers                                                     *)
(***************************************************************************)
NoDrag == [active |-> FALSE]

\* the same without the division by scale
toCanvasMinus_Unscaled(client, panv, v) == RSub(RSub(R(client), panv), v)

\* (clientX - pan.x) / scale - v
toCanvasMinus(client, panv, v) == RSub(RDiv(RSub(R(client), panv), scale), v)

\* handleMouseDown whose connecting branch leaves the connecting mode on
handleMouseDown_KeepsConnecting(card, e) ==
    IF connectingFromId # NULL
    THEN /\ handleCreateConnection(connectingFromId, card.id)
         /\ UNCHANGED <<cards, selectedCardId, showChat, isDragging, dragOffset,
                        activeDragId, pan, scale, isPanning, lastMousePos,
                        isNavOpen, connectingFromId, dragStart>>
    ELSE /\ activeDragId' = card.id
         /\ isDragging' = TRUE
         /\ dragOffset' = [x |-> toCanvasMinus(e.x, pan.x, card.x),
                           y |-> toCanvasMinus(e.y, pan.y, card.y)]
         /\ onCardSelect(card)
         /\ dragStart' = [active |-> TRUE, id |-> card.id, pt |-> e,
                          x |-> card.x, y |-> card.y, pan |-> pan, scale |-> scale]
         /\ UNCHANGED <<cards, connections, now, pan, scale, isPanning,
                        lastMousePos, isNavOpen, connectingFromId>>

\* handleMouseDown that starts the drag without selecting the card
handleMouseDown_NoSelect(card, e) ==
    IF connectingFromId # NULL
    THEN /\ handleCreateConnection(connectingFromId, card.id)
         /\ connectingFromId' = NULL
         /\ UNCHANGED <<cards, selectedCardId, showChat, isDragging, dragOffset,
                        activeDragId, pan, scale, isPanning, lastMousePos,
                        isNavOpen, dragStart>>
    ELSE /\ activeDragId' = card.id
         /\ isDragging' = TRUE
         /\ dragOffset' = [x |-> toCanvasMinus(e.x, pan.x, card.x),
                           y |-> toCanvasMinus(e.y, pan.y, card.y)]
         /\ dragStart' = [active |-> TRUE, id |-> card.id, pt |-> e,
                          x |-> card.x, y |-> card.y, pan |-> pan, scale |-> scale]
         /\ UNCHANGED <<cards, connections, now, pan, scale, isPanning,
                        lastMousePos, isNavOpen, connectingFromId,
                        selectedCardId, showChat>>

handleMouseDown(card, e) ==
    IF connectingFromId # NULL
    THEN /\ handleCreateConnection(connectingFromId, card.id)
         /\ connectingFromId' = NULL
         /\ UNCHANGED <<cards, selectedCardId, showChat, isDragging, dragOffset,
                        activeDragId, pan, scale, isPanning, lastMousePos,
                        isNavOpen, dragStart>>
    ELSE /\ activeDragId' = card.id
         /\ isDragging' = TRUE
         /\ dragOffset' = [x |-> toCanvasMinus(e.x, pan.x, card.x),
                           y |-> toCanvasMinus(e.y, pan.y, card.y)]
         /\ onCardSelect(card)
         /\ dragStart' = [active |-> TRUE, id |-> card.id, pt |-> e,
                          x |-> card.x, y |-> card.y, pan |-> pan, scale |-> scale]
         /\ UNCHANGED <<cards, connections, now, pan, scale, isPanning,
                        lastMousePos, isNavOpen, connectingFromId>>

\* handleBackgroundMouseDown that leaves the connecting mode on
handleBackgroundMouseDown_KeepsConnecting(e) ==
    /\ isPanning' = TRUE
    /\ lastMousePos' = [x |-> R(e.x), y |-> R(e.y)]
    /\ UNCHANGED <<cards, connections, now, selectedCardId, showChat, isDragging,
                   dragOffset, activeDragId, pan, scale, isNavOpen, dragStart,
                   connectingFromId>>

handleBackgroundMouseDown(e) ==
    /\ isPanning' = TRUE
    /\ lastMousePos' = [x |-> R(e.x), y |-> R(e.y)]
    /\ connectingFromId' = NULL
    /\ UNCHANGED <<cards, connections, now, selectedCardId, showChat, isDragging,
                   dragOffset, activeDragId, pan, scale, isNavOpen, dragStart>>

handleMouseMove(e) ==
    IF isDragging /\ activeDragId # NULL
    THEN /\ IF findIndex(cards, activeDragId) # -1
            THEN LET card == cards[findIndex(cards, activeDragId) + 1]
                 IN  onCardUpdate([card EXCEPT
                         !.x = toCanvasMinus(e.x, pan.x, dragOffset.x),
                         !.y = toCanvasMinus(e.y, pan.y, dragOffset.y)])
            ELSE UNCHANGED cards
         /\ UNCHANGED <<connections, now, selectedCardId, showChat, boardVars,
                        dragStart>>
    ELSE IF isPanning
    THEN /\ pan' = [x |-> RAdd(pan.x, RSub(R(e.x), lastMousePos.x)),
                    y |-> RAdd(pan.y, RSub(R(e.y), lastMousePos.y))]
         /\ lastMousePos' = [x |-> R(e.x), y |-> R(e.y)]
         /\ UNCHANGED <<cards, connections, now, selectedCardId, showChat,
                        isDragging, dragOffset, activeDragId, scale, isPanning,
                        isNavOpen, connectingFromId, dragStart>>
    ELSE UNCHANGED <<cards, connections, now, selectedCardId, showChat,
                     boardVars, dragStart>>

\* handleMouseUp that keeps the reference to the dragged card
handleMouseUp_KeepsActiveDragId ==
    /\ isDragging' = FALSE
    /\ isPanning' = FALSE
    /\ dragStart' = NoDrag
    /\ UNCHANGED <<cards, connections, now, selectedCardId, showChat, dragOffset,
                   pan, scale, lastMousePos, isNavOpen, connectingFromId,
                   activeDragId>>

\* handleMouseUp that ends the drag only
handleMouseUp_KeepsPanning ==
    /\ isDragging' = FALSE
    /\ activeDragId' = NULL
    /\ dragStart' = NoDrag
    /\ UNCHANGED <<cards, connections, now, selectedCardId, showChat, dragOffset,
                   pan, scale, lastMousePos, isNavOpen, connectingFromId,
                   isPanning>>

handleMouseUp ==
    /\ isDragging' = FALSE
    /\ activeDragId' = NULL
    /\ isPanning' = FALSE
    /\ dragStart' = NoDrag
    /\ UNCHANGED <<cards, connections, now, selectedCardId, showChat, dragOffset,
                   pan, scale, lastMousePos, isNavOpen, connectingFromId>>

\* the clamp without its upper end
ClampScale_NoUpper(s) == RMax(s, MinScale)

\* Math.min(Math.max(scale + delta, 0.1), 4)
ClampScale(s) == RMin(RMax(s, MinScale), MaxScale)

handleWheel(e) ==
    IF e.mod
    THEN /\ scale' = ClampScale(RAdd(scale, RMul(R(-e.deltaY), WheelFactor)))
         /\ UNCHANGED <<cards, connections, now, selectedCardId, showChat,
                        isDragging, dragOffset, activeDragId, pan, isPanning,
                        lastMousePos, isNavOpen, connectingFromId, dragStart>>
    ELSE /\ pan' = [x |-> RSub(pan.x, R(e.deltaX)), y |-> RSub(pan.y, R(e.deltaY))]
         /\ UNCHANGED <<cards, connections, now, selectedCardId, showChat,
                        isDragging, dragOffset, activeDragId, scale, isPanning,
                        lastMousePos, isNavOpen, connectingFromId, dragStart>>

zoomIn ==
    /\ scale' = RMin(RAdd(scale, ZoomStep), MaxScale)
    /\ UNCHANGED <<cards, connections, now, selectedCardId, showChat,
                   isDragging, dragOffset, activeDragId, pan, isPanning,
                   lastMousePos, isNavOpen, connectingFromId, dragStart>>

zoomOut ==
    /\ scale' = RMax(RSub(scale, ZoomStep), MinScale)
    /\ UNCHANGED <<cards, connections, now, selectedCardId, showChat,
                   isDragging, dragOffset, activeDragId, pan, isPanning,
                   lastMousePos, isNavOpen, connectingFromId, dragStart>>

\* the centring pan computed without the scale
CenterPan_Unscaled(card, client) ==
    [x |-> RSub(Rat(client.w, 2), RAdd(card.x, Rat(card.width, 2))),
     y |-> RSub(Rat(client.h, 2), RAdd(card.y, Rat(card.height, 2)))]

\* the pan that puts the card's centre at the centre of the container
CenterPan(card, client) ==
    LET cardCenterX == RMul(RAdd(card.x, Rat(card.width, 2)), scale)
        cardCenterY == RMul(RAdd(card.y, Rat(card.height, 2)), scale)
    IN  [x |-> RSub(Rat(client.w, 2), cardCenterX),
         y |-> RSub(Rat(client.h, 2), cardCenterY)]

\* centerCard that selects the card and leaves the pan alone
centerCard_KeepsPan(card, client) ==
    /\ onCardSelect(card)
    /\ UNCHANGED <<cards, connections, now, isDragging, dragOffset,
                   activeDragId, pan, scale, isPanning, lastMousePos, isNavOpen,
                   connectingFromId, dragStart>>

centerCard(card, client) ==
    /\ pan' = CenterPan(card, client)
    /\ onCardSelect(card)
    /\ UNCHANGED <<cards, connections, now, isDragging, dragOffset,
                   activeDragId, scale, isPanning, lastMousePos, isNavOpen,
                   connectingFromId, dragStart>>

\* the index computed with wraparound at the ends of the list
NextIndex_Wrap(direction) ==
    LET currentIndex == findIndex(cards, selectedCardId)
    IN  IF currentIndex = -1
        THEN (IF direction = "next" THEN 0 ELSE Len(cards) - 1)
        ELSE (IF direction = "next" THEN (currentIndex + 1) % Len(cards)
              ELSE (currentIndex - 1 + Len(cards)) % Len(cards))

\* the index navigateSequential hands to centerCard, counted from 0
NextIndex(direction) ==
    LET currentIndex == findIndex(cards, selectedCardId)
        nextIndex == IF currentIndex = -1
                     THEN (IF direction = "next" THEN 0 ELSE Len(cards) - 1)
                     ELSE (IF direction = "next" THEN currentIndex + 1
                           ELSE currentIndex - 1)
        low == IF nextIndex < 0 THEN 0 ELSE nextIndex
    IN  IF low >= Len(cards) THEN Len(cards) - 1 ELSE low

navigateSequential(direction, client) ==
    IF Len(cards) = 0
    THEN UNCHANGED <<cards, connections, now, selectedCardId, showChat,
                     boardVars, dragStart>>
    ELSE centerCard(cards[NextIndex(direction) + 1], client)

\* handleKeyDown without the test of the focused element
handleKeyDown_NoFocusCheck(key, tagName, client) ==
    IF key = "ArrowRight" \/ key = "ArrowDown"
    THEN navigateSequential("next", client)
    ELSE IF key = "ArrowLeft" \/ key = "ArrowUp"
    THEN navigateSequential("prev", client)
    ELSE IF key = "Escape"
    THEN /\ connectingFromId' = NULL
         /\ UNCHANGED <<cards, connections, now, selectedCardId, showChat,
                        isDragging, dragOffset, activeDragId, pan, scale,
                        isPanning, lastMousePos, isNavOpen, dragStart>>
    ELSE UNCHANGED <<cards, connections, now, selectedCardId, showChat,
                     boardVars, dragStart>>

handleKeyDown(key, tagName, client) ==
    IF tagName \in {"INPUT", "TEXTAREA"}
    THEN UNCHANGED <<cards, connections, now, selectedCardId, showChat,
                     boardVars, dragStart>>
    ELSE IF key = "ArrowRight" \/ key = "ArrowDown"
    THEN navigateSequential("next", client)
    ELSE IF key = "ArrowLeft" \/ key = "ArrowUp"
    THEN navigateSequential("prev", client)
    ELSE IF key = "Escape"
    THEN /\ connectingFromId' = NULL
         /\ UNCHANGED <<cards, connections, now, selectedCardId, showChat,
                        isDragging, dragOffset, activeDragId, pan, scale,
                        isPanning, lastMousePos, isNavOpen, dragStart>>
    ELSE UNCHANGED <<cards, connections, now, selectedCardId, showChat,
                     boardVars, dragStart>>

\* Connection Button onClick
\* a link button that records the card's title as the connecting source
linkClick_ByTitle(card) ==
    /\ connectingFromId' = card.title
    /\ UNCHANGED <<cards, connections, now, selectedCardId, showChat,
                   isDragging, dragOffset, activeDragId, pan, scale, isPanning,
                   lastMousePos, isNavOpen, dragStart>>

linkClick(card) ==
    /\ connectingFromId' = card.id
    /\ UNCHANGED <<cards, connections, now, selectedCardId, showChat,
                   isDragging, dragOffset, activeDragId, pan, scale, isPanning,
                   lastMousePos, isNavOpen, dragStart>>

setIsNavOpen(b) ==
    /\ isNavOpen' = b
    /\ UNCHANGED <<cards, connections, now, selectedCardId, showChat,
                   isDragging, dragOffset, activeDragId, pan, scale, isPanning,
                   lastMousePos, connectingFromId, dragStart>>

\* the index the bottom navigation control shows, counted from 0
RenderedIndex ==
    IF selectedCardId # NULL THEN findIndex(cards, selectedCardId) ELSE -1


(***************************************************************************)
(* Canvas events.  The Whiteboard is mounted while step is not UPLOAD.     *)
(***************************************************************************)
restUnchanged ==
    UNCHANGED <<step, chatHistory, isProcessing, targetLanguage, inputText,
                upload, chatVars, apiKey, alerts, nImports, parsed>>

CanvasEvent(ev) ==
    /\ step # "UPLOAD"
    /\ nEvents < MaxEvents
    /\ nEvents' = nEvents + 1
    /\ lastEvent' = ev
    /\ restUnchanged

\* onMouseDown of a card (its header, its link button included)
MouseDownCard ==
    \E k \in 1..Len(cards), e \in Points :
        /\ CanvasEvent([op |-> "mousedownCard", card |-> k, pt |-> e,
                        from |-> connectingFromId,
                        conns |-> Len(connections)])
        /\ handleMouseDown(cards[k], e)

\* onMouseDown reaching the Whiteboard root
MouseDownBackground ==
    \E e \in Points :
        /\ CanvasEvent([op |-> "mousedownBackground", pt |-> e,
                        from |-> connectingFromId])
        /\ handleBackgroundMouseDown(e)

MouseMove ==
    \E e \in Points :
        /\ CanvasEvent([op |-> "mousemove", pt |-> e])
        /\ handleMouseMove(e)

\* onMouseUp and onMouseLeave of the root
MouseUp ==
    \E name \in {"mouseup", "mouseleave"} :
        /\ CanvasEvent([op |-> name, wasDragging |-> isDragging,
                        wasPanning |-> isPanning])
        /\ handleMouseUp

Wheel ==
    \E e \in WheelEvents :
        /\ CanvasEvent([op |-> "wheel", e |-> e, scale |-> scale])
        /\ handleWheel(e)

ZoomInClick ==
    /\ CanvasEvent([op |-> "zoomIn", scale |-> scale])
    /\ zoomIn

ZoomOutClick ==
    /\ CanvasEvent([op |-> "zoomOut", scale |-> scale])
    /\ zoomOut

KeyDown ==
    \E e \in KeyEvents, client \in ClientSizes :
        /\ CanvasEvent([op |-> "keydown", key |-> e.key, tagName |-> e.tagName,
                        client |-> client, pan |-> pan,
                        from |-> findIndex(cards, selectedCardId),
                        connecting |-> connectingFromId])
        /\ handleKeyDown(e.key, e.tagName, client)

LinkClick ==
    \E k \in 1..Len(cards) :
        /\ CanvasEvent([op |-> "linkClick", card |-> k])
        /\ linkClick(cards[k])

NavToggle ==
    \E b \in BOOLEAN :
        /\ isNavOpen # b
        /\ CanvasEvent([op |-> "setIsNavOpen", open |-> b])
        /\ setIsNavOpen(b)

\* a card's entry in the content map, shown while the drawer is open
NavListClick ==
    \E k \in 1..Len(cards), client \in ClientSizes :
        /\ isNavOpen
        /\ CanvasEvent([op |-> "navList", card |-> k, client |-> client,
                        pan |-> pan])
        /\ centerCard(cards[k], client)

\* the previous / next buttons, disabled at the ends of the list
NavButtonClick ==
    \E direction \in {"prev", "next"}, client \in ClientSizes :
        /\ Len(cards) # 0
        /\ direction = "prev" => RenderedIndex # 0
        /\ direction = "next" => RenderedIndex # Len(cards) - 1
        /\ CanvasEvent([op |-> "navButton", direction |-> direction,
                        client |-> client, pan |-> pan,
                        from |-> findIndex(cards, selectedCardId)])
        /\ navigateSequential(direction, client)

NextCanvas ==
    \/ MouseDownCard
    \/ MouseDownBackground
    \/ MouseMove
    \/ MouseUp
    \/ Wheel
    \/ ZoomInClick
    \/ ZoomOutClick
    \/ KeyDown
    \/ LinkClick
    \/ NavToggle
    \/ NavListClick
    \/ NavButtonClick

(***************************************************************************)
(* The canvas as it opens: after a file import of a.md with two sections   *)
(* and b.PDF with one page, or after a text import of the sample text,     *)
(* both in the original language.                                          *)
(***************************************************************************)
\* Date.now() when the page is loaded, in milliseconds
StartTime == 1000

SAMPLE_TEXT == "1.2.6 Bayesian curve fitting"

BoardFiles ==
    << [base |-> "a", ext |-> "md", ok |-> TRUE, pages |-> <<>>,
        mdSections |-> << [title |-> "Intro", content |-> "# Intro"],
                          [title |-> "Body", content |-> "## Body"] >>],
       [base |-> "b", ext |-> "PDF", ok |-> TRUE, pages |-> << "page one" >>,
        mdSections |-> <<>>] >>

BoardCards ==
    FileCards(0, Sections(BoardFiles[1]), "Original", 100, StartTime)
    \o FileCards(1, Sections(BoardFiles[2]), "Original",
                 100 + CARD_WIDTH + COLUMN_GAP, StartTime)

IdleUpload == [pc |-> "idle"]
MdFileName == << "n", ".", "m", "d" >>

\* a markdown text with the sections parseMarkdownFile returns for it
ParsedFile(text) ==
    [text |-> text, sections |-> parseMarkdownFile(MdFileName, text)]

NoParse == ParsedFile(<<>>)

\* the application after an import, before anything is done on the canvas
\* the canvas after an import, with the chat history and the clock given
OpenedBoardWith(history, t) ==
    /\ step = "ORGANIZE"
    /\ \/ /\ cards = BoardCards
          /\ connections = SequentialConnections(BoardCards)
          /\ inputText = ""
       \/ /\ cards = << TextCard(SAMPLE_TEXT, "Original") >>
          /\ connections = <<>>
          /\ inputText = SAMPLE_TEXT
    /\ selectedCardId = NULL
    /\ chatHistory = history
    /\ isProcessing = FALSE
    /\ targetLanguage = "Original"
    /\ showChat = TRUE
    /\ upload = IdleUpload
    /\ isDragging = FALSE
    /\ dragOffset = [x |-> R(0), y |-> R(0)]
    /\ activeDragId = NULL
    /\ pan = [x |-> R(0), y |-> R(0)]
    /\ scale = R(1)
    /\ isPanning = FALSE
    /\ lastMousePos = [x |-> R(0), y |-> R(0)]
    /\ isNavOpen = FALSE
    /\ connectingFromId = NULL
    /\ input = ""
    /\ isLoading = FALSE
    /\ useThinking = FALSE
    /\ chatInstance = 0
    /\ chatReq = <<>>
    /\ now = t
    /\ lastEvent = [op |-> "import"]
    /\ dragStart = NoDrag
    /\ alerts = <<>>
    /\ nEvents = 0
    /\ nImports = 1
    /\ parsed = NoParse

OpenedBoard == OpenedBoardWith(<<>>, StartTime)

InitCanvas ==
    /\ OpenedBoard
    /\ apiKey = TRUE

SpecCanvas == InitCanvas /\ [][NextCanvas]_vars


(***************************************************************************)
(* Claims about the canvas (SpecCanvas)                                    *)
(***************************************************************************)

\* C1: in every reachable state the viewport scale lies in [0.1, 4.0],
\* whatever zoomIn, zoomOut and modifier-key wheel events have been handled.
C1_ScaleInRange == RLe(MinScale, scale) /\ RLe(scale, MaxScale)

\* zoomIn from 3.95 has been cut at 4
C1_Witness ==
    /\ lastEvent.op = "zoomIn"
    /\ lastEvent.scale = Rat(395, 100)
    /\ scale = MaxScale

\* C2: at most one of isDragging, isPanning and connectingFromId != null is
\* active in every state reachable by pointer, wheel, link and key events.
C2_AtMostOneMode ==
    /\ ~(isDragging /\ isPanning)
    /\ ~(isDragging /\ connectingFromId # NULL)
    /\ ~(isPanning /\ connectingFromId # NULL)


\* no connection from a card to itself, no two connections with the same
\* (source, destination) pair
NoSelfNoDuplicate(conns) ==
    /\ \A k \in 1..Len(conns) : conns[k].fromCardId # conns[k].toCardId
    /\ \A j, k \in 1..Len(conns) :
           (conns[j].fromCardId = conns[k].fromCardId
            /\ conns[j].toCardId = conns[k].toCardId) => j = k

\* a pointer-down on card number k, handled while connecting, that asks for
\* a connection to the source itself or for a pair already in the store
RefusedConnect(ev, conns, cs) ==
    /\ ev.op = "mousedownCard"
    /\ ev.from # NULL
    /\ \/ ev.from = cs[ev.card].id
       \/ \E j \in 1..Len(conns) :
              conns[j].fromCardId = ev.from /\ conns[j].toCardId = cs[ev.card].id

\* C3: the connection store never holds a connection whose source equals its
\* destination nor two connections with the same (source, destination) pair,
\* for the auto-sequenced connections of the import as for the user's links;
\* a connect attempt to the source itself or for a pair already present
\* leaves the store unchanged and raises no alert, at every repetition.
C3_ConnectionsWellFormed ==
    [][/\ NoSelfNoDuplicate(connections)
       /\ NoSelfNoDuplicate(connections')
       /\ RefusedConnect(lastEvent', connections, cards)
              => (connections' = connections /\ alerts' = alerts)]_vars

\* the user linked the first card to the third, and asking for the same link
\* again was refused
C3_Witness ==
    /\ Len(cards) = 3
    /\ RefusedConnect(lastEvent, connections, cards)
    /\ lastEvent.from = cards[1].id
    /\ lastEvent.card = 3
    /\ lastEvent.conns = 3
    /\ Len(connections) = 3
    /\ connections[3].fromCardId = cards[1].id
    /\ connections[3].toCardId = cards[3].id

\* the canvas position of the card being dragged
DraggedCard == cards[findIndex(cards, activeDragId) + 1]

\* the card being dragged lies at its position at the pointer-down plus
\* (pointer - pointer at the pointer-down) / scale
MovedByPointerDelta ==
    /\ DraggedCard.x = RAdd(dragStart.x,
           RDiv(R(lastEvent.pt.x - dragStart.pt.x), scale))
    /\ DraggedCard.y = RAdd(dragStart.y,
           RDiv(R(lastEvent.pt.y - dragStart.pt.y), scale))

DragMoveHandled ==
    /\ lastEvent.op = "mousemove"
    /\ isDragging
    /\ dragStart.active

\* C4 as stated: during a drag gesture, after a pointer-move, the card's
\* canvas position differs from its position at the pointer-down by
\* (dx / scale, dy / scale), (dx, dy) being the pointer's displacement since
\* the pointer-down.
C4_DragByDelta_Original == DragMoveHandled => MovedByPointerDelta

\* C4 amended: the same, for a pointer-move handled while pan and scale are
\* what they were at the pointer-down.
C4_DragByDelta ==
    (DragMoveHandled /\ pan = dragStart.pan /\ scale = dragStart.scale)
        => MovedByPointerDelta

\* a card dragged to another pointer position at a scale other than 1
C4_Witness ==
    /\ DragMoveHandled
    /\ pan = dragStart.pan /\ scale = dragStart.scale
    /\ lastEvent.pt # dragStart.pt
    /\ scale # R(1)
    /\ DraggedCard.x # dragStart.x


\* the event is a sequential navigation in `direction`: an arrow key pressed
\* outside a text input, or the previous / next button
Navigates(ev, direction) ==
    \/ /\ ev.op = "keydown"
       /\ ev.tagName \notin {"INPUT", "TEXTAREA"}
       /\ IF direction = "next" THEN ev.key \in {"ArrowRight", "ArrowDown"}
          ELSE ev.key \in {"ArrowLeft", "ArrowUp"}
    \/ /\ ev.op = "navButton"
       /\ ev.direction = direction

Min(a, b) == IF a <= b THEN a ELSE b
Max(a, b) == IF a <= b THEN b ELSE a

\* the index, counted from 0, that C5 gives for a navigation from index i
\* (-1: no card selected) in a list of n cards
ClaimedIndex(i, n, direction) ==
    IF i = -1 THEN (IF direction = "next" THEN 0 ELSE n - 1)
    ELSE IF direction = "next" THEN Min(i + 1, n - 1)
    ELSE Max(i - 1, 0)

\* C5: on a non-empty card list, with key focus outside a text input, next
\* selects index 0 and prev the last index when no card is selected; from the
\* selected index i, next selects min(i+1, n-1) and prev max(i-1, 0); the
\* navigation never wraps around.
C5_NavigationClamped ==
    [][\A direction \in {"next", "prev"} :
          (Navigates(lastEvent', direction) /\ Len(cards) > 0) =>
              /\ selectedCardId' =
                     cards[ClaimedIndex(findIndex(cards, selectedCardId),
                                        Len(cards), direction) + 1].id
              /\ findIndex(cards', selectedCardId') =
                     ClaimedIndex(findIndex(cards, selectedCardId),
                                  Len(cards), direction)]_vars

\* next pressed with the last of three cards selected: the last stays selected
C5_Witness ==
    /\ Len(cards) = 3
    /\ Navigates(lastEvent, "next")
    /\ lastEvent.from = 2
    /\ selectedCardId = cards[3].id

\* the event is a sequential navigation at a boundary: next with the last
\* card selected, or prev with the first card selected
AtBoundary(ev) ==
    \/ Navigates(ev, "next") /\ findIndex(cards, selectedCardId) = Len(cards) - 1
    \/ Navigates(ev, "prev") /\ findIndex(cards, selectedCardId) = 0

\* C6 as stated: sequential navigation at a boundary leaves the selection at
\* that index and changes no other canvas state (pan, scale, cards,
\* connections, interaction mode).
C6_BoundaryNoOp_Original ==
    [][AtBoundary(lastEvent') =>
          /\ selectedCardId' = selectedCardId
          /\ UNCHANGED <<pan, scale, cards, connections, isDragging,
                         activeDragId, dragOffset, isPanning, lastMousePos,
                         connectingFromId>>]_vars

\* C6 amended: sequential navigation at a boundary leaves the selection at
\* that index and changes no canvas state other than pan, which is set to
\* centre the viewport on that card.
C6_BoundaryKeepsSelection ==
    [][AtBoundary(lastEvent') =>
          /\ selectedCardId' = selectedCardId
          /\ pan' = CenterPan(cards[findIndex(cards, selectedCardId) + 1],
                              lastEvent'.client)
          /\ UNCHANGED <<scale, cards, connections, isDragging,
                         activeDragId, dragOffset, isPanning, lastMousePos,
                         connectingFromId>>]_vars

\* prev pressed with the first of three cards selected while the view was
\* not centred on it: the selection stays and the view is moved onto it
C6_Witness ==
    /\ Len(cards) = 3
    /\ Navigates(lastEvent, "prev")
    /\ lastEvent.from = 0
    /\ selectedCardId = cards[1].id
    /\ lastEvent.pan # pan
    /\ pan = CenterPan(cards[1], lastEvent.client)

\* the event selects a card through sequential navigation or through the
\* content map
SelectsByNavigation(ev) ==
    \/ Navigates(ev, "next")
    \/ Navigates(ev, "prev")
    \/ ev.op = "navList"

\* C7: whenever sequential navigation or the content-map list selects card
\* c, afterwards pan = (viewportWidth/2 - (c.x + c.width/2) * scale,
\* viewportHeight/2 - (c.y + c.height/2) * scale), scale is unchanged and c
\* is the selected card.
C7_RecentredOnSelection ==
    [][(SelectsByNavigation(lastEvent') /\ Len(cards) > 0) =>
          \E k \in 1..Len(cards) :
              /\ lastEvent'.op = "navList" => k = lastEvent'.card
              /\ selectedCardId' = cards'[k].id
              /\ pan'.x = RSub(Rat(lastEvent'.client.w, 2),
                     RMul(RAdd(cards'[k].x, Rat(cards'[k].width, 2)), scale'))
              /\ pan'.y = RSub(Rat(lastEvent'.client.h, 2),
                     RMul(RAdd(cards'[k].y, Rat(cards'[k].height, 2)), scale'))
              /\ scale' = scale]_vars

\* the content map selected the second card at a scale other than 1, with a
\* pan that was not the centred one before
C7_Witness ==
    /\ Len(cards) = 3
    /\ lastEvent.op = "navList"
    /\ lastEvent.card = 2
    /\ lastEvent.pan # pan
    /\ scale # R(1)
    /\ selectedCardId = cards[2].id
    /\ pan = CenterPan(cards[2], lastEvent.client)


(***************************************************************************)
(* Imports (App.tsx): handleFileUpload and handleProcessText, each run     *)
(* from one await to the next                                              *)
(***************************************************************************)
Languages == { "Original", "Ukrainian" }

\* texts of the paste area
InputTexts == { SAMPLE_TEXT, "", " " }

MdThree ==
    [base |-> "a", ext |-> "md", ok |-> TRUE, pages |-> <<>>,
     mdSections |-> << [title |-> "Intro", content |-> "# Intro"],
                       [title |-> "Body", content |-> "## Body"],
                       [title |-> "End", content |-> "## End"] >>]
PdfThree ==
    [base |-> "b", ext |-> "PDF", ok |-> TRUE,
     pages |-> << "page one", " ", "page three", "page four" >>,
     mdSections |-> <<>>]
Unsupported ==
    [base |-> "notes", ext |-> "txt", ok |-> TRUE, pages |-> <<>>,
     mdSections |-> <<>>]
BrokenPdf ==
    [base |-> "c", ext |-> "pdf", ok |-> FALSE, pages |-> <<>>,
     mdSections |-> <<>>]
EmptyPdf ==
    [base |-> "e", ext |-> "pdf", ok |-> TRUE, pages |-> << "", " " >>,
     mdSections |-> <<>>]

\* the file lists handed to handleFileUpload
FileBatches ==
    { <<>>, << Unsupported >>, << EmptyPdf >>,
      << MdThree, Unsupported, PdfThree >>,
      << MdThree, BrokenPdf >>,
      BoardFiles }

\* the first index from i on, counted from 0, of a file that is not skipped;
\* files.length when there is none
RECURSIVE NextSupported(_, _)
NextSupported(files, i) ==
    IF i >= Len(files) THEN Len(files)
    ELSE IF isPdf(files[i + 1]) \/ isMd(files[i + 1]) THEN i
    ELSE NextSupported(files, i + 1)

importFrame ==
    UNCHANGED <<selectedCardId, chatHistory, showChat, boardVars, chatVars,
                apiKey, dragStart, nEvents, parsed>>

\* a handleFileUpload that keeps the cards extracted before the failure
AbortUpload_KeepsExtracted(u) ==
    /\ alerts' = Append(alerts, "Error reading files. Please check console for details.")
    /\ isProcessing' = FALSE
    /\ upload' = IdleUpload
    /\ lastEvent' = [op |-> "importFailed", files |-> u.files,
                     discarded |-> Len(u.allNewCards)]
    /\ cards' = u.allNewCards
    /\ UNCHANGED <<connections, step, inputText>>

\* a handleFileUpload without its finally block
AbortUpload_NoFinally(u) ==
    /\ alerts' = Append(alerts, "Error reading files. Please check console for details.")
    /\ upload' = IdleUpload
    /\ lastEvent' = [op |-> "importFailed", files |-> u.files,
                     discarded |-> Len(u.allNewCards)]
    /\ UNCHANGED <<cards, connections, step, inputText, isProcessing>>

\* catch and finally of handleFileUpload, after an extraction has thrown
AbortUpload(u) ==
    /\ alerts' = Append(alerts, "Error reading files. Please check console for details.")
    /\ isProcessing' = FALSE
    /\ upload' = IdleUpload
    /\ lastEvent' = [op |-> "importFailed", files |-> u.files,
                     discarded |-> Len(u.allNewCards)]
    /\ UNCHANGED <<cards, connections, step, inputText>>

\* a handleFileUpload that opens the canvas whatever the number of cards
FinishUpload_OpensEmptyBoard(u) ==
    /\ cards' = u.allNewCards
    /\ connections' = SequentialConnections(u.allNewCards)
    /\ step' = "ORGANIZE"
    /\ inputText' = ""
    /\ isProcessing' = FALSE
    /\ upload' = IdleUpload
    /\ lastEvent' = [op |-> "imported", files |-> u.files, lang |-> u.lang,
                     outcomes |-> u.outcomes]
    /\ UNCHANGED alerts

\* a handleFileUpload without the alert of the zero-card branch
FinishUpload_NoAlert(u) ==
    IF Len(u.allNewCards) = 0
    THEN /\ isProcessing' = FALSE
         /\ upload' = IdleUpload
         /\ lastEvent' = [op |-> "importEmpty", files |-> u.files,
                          alerts |-> Len(alerts)]
         /\ UNCHANGED <<cards, connections, step, inputText, alerts>>
    ELSE /\ cards' = u.allNewCards
         /\ connections' = SequentialConnections(u.allNewCards)
         /\ step' = "ORGANIZE"
         /\ inputText' = ""
         /\ isProcessing' = FALSE
         /\ upload' = IdleUpload
         /\ lastEvent' = [op |-> "imported", files |-> u.files, lang |-> u.lang,
                          outcomes |-> u.outcomes]
         /\ UNCHANGED alerts

\* the end of handleFileUpload, after the loop over the files
FinishUpload(u) ==
    IF Len(u.allNewCards) = 0
    THEN /\ alerts' = Append(alerts, "No valid content found in the uploaded files.")
         /\ isProcessing' = FALSE
         /\ upload' = IdleUpload
         /\ lastEvent' = [op |-> "importEmpty", files |-> u.files,
                          alerts |-> Len(alerts)]
         /\ UNCHANGED <<cards, connections, step, inputText>>
    ELSE /\ cards' = u.allNewCards
         /\ connections' = SequentialConnections(u.allNewCards)
         /\ step' = "ORGANIZE"
         /\ inputText' = ""
         /\ isProcessing' = FALSE
         /\ upload' = IdleUpload
         /\ lastEvent' = [op |-> "imported", files |-> u.files, lang |-> u.lang,
                          outcomes |-> u.outcomes]
         /\ UNCHANGED alerts

\* the loop of handleFileUpload from file u.i on, up to the next await
ProceedUpload(u) ==
    LET k == NextSupported(u.files, u.i)
    IN  IF k < Len(u.files)
        THEN /\ upload' = [u EXCEPT !.pc = "extract", !.i = k]
             /\ isProcessing' = TRUE
             /\ lastEvent' = [op |-> "importing"]
             /\ UNCHANGED <<cards, connections, step, inputText, alerts>>
        ELSE FinishUpload([u EXCEPT !.i = k])

\* the cards of the current file appended, the column advanced
WithFileCards(u, processedSections, t) ==
    [u EXCEPT !.pc = "loop",
              !.allNewCards = @ \o FileCards(u.i, processedSections, u.lang,
                                             u.currentXPosition, t),
              !.currentXPosition = @ + CARD_WIDTH + COLUMN_GAP,
              !.i = @ + 1]

handleFileUpload(files) ==
    IF Len(files) = 0
    THEN /\ lastEvent' = [op |-> "noFiles", alerts |-> Len(alerts)]
         /\ UNCHANGED <<cards, connections, step, inputText, alerts,
                        isProcessing, upload>>
    ELSE ProceedUpload([pc |-> "loop", files |-> files, lang |-> targetLanguage,
                        i |-> 0, j |-> 0, sections |-> <<>>,
                        translatedSections |-> <<>>, allNewCards |-> <<>>,
                        currentXPosition |-> 100, outcomes |-> <<>>])

\* the file input's onChange; the upload area opens the file dialog only
\* while no import is being processed
FileUploadStart ==
    \E files \in FileBatches :
        /\ step = "UPLOAD"
        /\ ~isProcessing
        /\ nImports < MaxImports
        /\ nImports' = nImports + 1
        /\ handleFileUpload(files)
        /\ UNCHANGED <<targetLanguage, now>>
        /\ importFrame

\* extractTextFromPdf / parseMarkdownFile settles for file u.i
ExtractResolved ==
    /\ upload.pc = "extract"
    /\ LET u == upload
           file == u.files[u.i + 1]
       IN  IF ~file.ok
           THEN /\ AbortUpload(u)
                /\ UNCHANGED now
           ELSE IF u.lang # "Original" /\ Len(Sections(file)) > 0
           THEN /\ upload' = [u EXCEPT !.pc = "translate",
                                       !.sections = Sections(file),
                                       !.j = 0, !.translatedSections = <<>>]
                /\ lastEvent' = [op |-> "importing"]
                /\ UNCHANGED <<cards, connections, step, inputText, alerts,
                               isProcessing, now>>
           ELSE \E t \in (IF Len(Sections(file)) = 0 THEN {now} ELSE {now, now + 1}) :
                    /\ now' = t
                    /\ ProceedUpload(WithFileCards(u, Sections(file), t))
    /\ UNCHANGED <<targetLanguage, nImports>>
    /\ importFrame

\* translateContent settles for section u.j of file u.i
TranslateResolved ==
    /\ upload.pc = "translate"
    /\ \E outcome \in (IF apiKey THEN SdkOutcomes ELSE {"nokey"}) :
         LET u == upload
             section == u.sections[u.j + 1]
             translatedText == translateContent(section.text, u.lang, apiKey, outcome)
             u2 == [u EXCEPT !.translatedSections =
                                 Append(@, [section EXCEPT !.text = translatedText]),
                             !.outcomes = Append(@, outcome),
                             !.j = @ + 1]
         IN  IF u2.j < Len(u.sections)
             THEN /\ upload' = u2
                  /\ lastEvent' = [op |-> "importing"]
                  /\ UNCHANGED <<cards, connections, step, inputText, alerts,
                                 isProcessing, now>>
             ELSE \E t \in {now, now + 1} :
                      /\ now' = t
                      /\ ProceedUpload(WithFileCards(u2, u2.translatedSections, t))
    /\ UNCHANGED <<targetLanguage, nImports>>
    /\ importFrame

\* handleProcessText up to its first await or to the timer; the button is
\* disabled while an import is processed or the text is blank
ProcessTextStart ==
    /\ step = "UPLOAD"
    /\ ~isProcessing
    /\ ~Blank(inputText)
    /\ nImports < MaxImports
    /\ nImports' = nImports + 1
    /\ isProcessing' = TRUE
    /\ upload' = IF targetLanguage # "Original"
                 THEN [pc |-> "textTranslate", lang |-> targetLanguage,
                       text |-> inputText]
                 ELSE [pc |-> "textTimer", lang |-> targetLanguage,
                       text |-> inputText, outcome |-> "none",
                       newCards |-> << TextCard(inputText, targetLanguage) >>]
    /\ lastEvent' = [op |-> "importing"]
    /\ UNCHANGED <<cards, connections, step, inputText, alerts, targetLanguage, now>>
    /\ importFrame

\* translateContent settles for the pasted text
ProcessTextTranslated ==
    /\ upload.pc = "textTranslate"
    /\ \E outcome \in (IF apiKey THEN SdkOutcomes ELSE {"nokey"}) :
         upload' = [pc |-> "textTimer", lang |-> upload.lang, text |-> upload.text,
                    outcome |-> outcome,
                    newCards |-> << TextCard(
                        translateContent(upload.text, upload.lang, apiKey, outcome),
                        upload.lang) >>]
    /\ lastEvent' = [op |-> "importing"]
    /\ UNCHANGED <<cards, connections, step, inputText, alerts, isProcessing,
                   targetLanguage, now, nImports>>
    /\ importFrame

\* the 500 ms timer of handleProcessText fires
ProcessTextTimer ==
    /\ upload.pc = "textTimer"
    /\ cards' = upload.newCards
    /\ step' = "ORGANIZE"
    /\ isProcessing' = FALSE
    /\ upload' = IdleUpload
    /\ lastEvent' = [op |-> "textImported", text |-> upload.text,
                     lang |-> upload.lang, outcome |-> upload.outcome]
    /\ UNCHANGED <<connections, inputText, alerts, targetLanguage, now, nImports>>
    /\ importFrame

\* the language selector and the paste area of the upload view
SetTargetLanguage ==
    \E lang \in Languages :
        /\ step = "UPLOAD"
        /\ targetLanguage # lang
        /\ targetLanguage' = lang
        /\ UNCHANGED <<cards, connections, step, inputText, alerts, isProcessing,
                       upload, lastEvent, now, nImports>>
        /\ importFrame

SetInputText ==
    \E t \in InputTexts :
        /\ step = "UPLOAD"
        /\ inputText # t
        /\ inputText' = t
        /\ UNCHANGED <<cards, connections, step, targetLanguage, alerts,
                       isProcessing, upload, lastEvent, now, nImports>>
        /\ importFrame

NextImport ==
    \/ FileUploadStart
    \/ ExtractResolved
    \/ TranslateResolved
    \/ ProcessTextStart
    \/ ProcessTextTranslated
    \/ ProcessTextTimer
    \/ SetTargetLanguage
    \/ SetInputText

\* the application as it starts
InitApp ==
    /\ step = "UPLOAD"
    /\ cards = <<>>
    /\ connections = <<>>
    /\ selectedCardId = NULL
    /\ chatHistory = <<>>
    /\ isProcessing = FALSE
    /\ targetLanguage = "Original"
    /\ inputText = SAMPLE_TEXT
    /\ showChat = TRUE
    /\ upload = IdleUpload
    /\ isDragging = FALSE
    /\ dragOffset = [x |-> R(0), y |-> R(0)]
    /\ activeDragId = NULL
    /\ pan = [x |-> R(0), y |-> R(0)]
    /\ scale = R(1)
    /\ isPanning = FALSE
    /\ lastMousePos = [x |-> R(0), y |-> R(0)]
    /\ isNavOpen = FALSE
    /\ connectingFromId = NULL
    /\ input = ""
    /\ isLoading = FALSE
    /\ useThinking = FALSE
    /\ chatInstance = 0
    /\ chatReq = <<>>
    /\ apiKey \in BOOLEAN
    /\ now = StartTime
    /\ lastEvent = [op |-> "init"]
    /\ dragStart = NoDrag
    /\ alerts = <<>>
    /\ nEvents = 0
    /\ nImports = 0
    /\ parsed = NoParse

SpecImport == InitApp /\ [][NextImport]_vars

\* the file import awaits an extraction or a translation
FileImportAwaits == upload.pc \in { "extract", "translate" }

FileImportSettles ==
    \/ ExtractResolved
    \/ TranslateResolved

\* FileImportSettles can change upload exactly while the file import awaits
FileImportSettlesEnabled ==
    (ENABLED <<FileImportSettles>>_upload) <=> FileImportAwaits

\* every awaited promise is settled and the 500 ms timer fires; for the file
\* import this is WF_upload(FileImportSettles) with ENABLED written out as
\* FileImportSettlesEnabled gives it
ImportFairness ==
    /\ WF_upload(ProcessTextTranslated)
    /\ WF_upload(ProcessTextTimer)
    /\ ([]<>(~FileImportAwaits)) \/ []<><<FileImportSettles>>_upload

SpecImportFair == SpecImport /\ ImportFairness

\* the canvas of InitCanvas is one the imports open
CanvasOpensLikeThis ==
    /\ step = "ORGANIZE"
    /\ cards = BoardCards
    /\ connections = SequentialConnections(BoardCards)
    /\ inputText = ""


(***************************************************************************)
(* Claims about the imports                                                *)
(***************************************************************************)
\* the sections of the supported files of a batch, file by file
RECURSIVE ExpectedSectionsFrom(_, _)
ExpectedSectionsFrom(files, k) ==
    IF k > Len(files) THEN <<>>
    ELSE (IF isPdf(files[k]) \/ isMd(files[k]) THEN Sections(files[k]) ELSE <<>>)
         \o ExpectedSectionsFrom(files, k + 1)

ExpectedSections(files) == ExpectedSectionsFrom(files, 1)

FileImportDone == lastEvent.op = "imported"

\* C8: after a file import that produced N >= 1 cards, the cards are the
\* sections of the supported files in file-then-section order (unsupported
\* files contribute nothing), the cards have distinct ids, and there are
\* exactly N-1 connections, the k-th from the k-th card to the (k+1)-th.
C8_ImportOrderAndConnections ==
    FileImportDone =>
        LET expected == ExpectedSections(lastEvent.files)
            N == Len(cards)
        IN  /\ N >= 1
            /\ N = Len(expected)
            /\ \A k \in 1..N :
                 /\ cards[k].title = expected[k].title \o " " \o
                       (IF lastEvent.lang # "Original"
                        THEN "(" \o lastEvent.lang \o ")" ELSE "")
                 /\ lastEvent.lang = "Original" => cards[k].content = expected[k].text
            /\ \A k, m \in 1..N : cards[k].id = cards[m].id => k = m
            /\ Len(connections) = N - 1
            /\ \A k \in 1..(N - 1) :
                 /\ connections[k].fromCardId = cards[k].id
                 /\ connections[k].toCardId = cards[k + 1].id

\* two files of three sections each around an unsupported one: 6 cards, 5
\* connections
C8_Witness ==
    /\ FileImportDone
    /\ lastEvent.files = << MdThree, Unsupported, PdfThree >>
    /\ Len(cards) = 6
    /\ Len(connections) = 5
    /\ step = "ORGANIZE"

\* the service failed for a translation: the SDK call threw, the response
\* had no text, or there was no API key
TranslationFailed(outcome) == outcome \in { "error", "empty", "nokey" }

\* C9: every card of an import with a target language has as content the
\* translation or the original text of its section, and the original text
\* wherever the translation service failed for that section; the same for
\* the single card of a text import.
C9_TranslationFallsBack ==
    /\ (FileImportDone /\ lastEvent.lang # "Original") =>
         LET expected == ExpectedSections(lastEvent.files)
         IN  /\ Len(lastEvent.outcomes) = Len(cards)
             /\ Len(expected) = Len(cards)
             /\ \A k \in 1..Len(cards) :
                  /\ cards[k].content \in
                        { expected[k].text, Translated(expected[k].text, lastEvent.lang) }
                  /\ TranslationFailed(lastEvent.outcomes[k])
                        => cards[k].content = expected[k].text
    /\ (lastEvent.op = "textImported" /\ lastEvent.lang # "Original") =>
         /\ Len(cards) = 1
         /\ cards[1].content \in
               { lastEvent.text, Translated(lastEvent.text, lastEvent.lang) }
         /\ TranslationFailed(lastEvent.outcome) => cards[1].content = lastEvent.text

\* an import into Ukrainian in which the SDK threw for one section and
\* answered for another
C9_Witness ==
    /\ FileImportDone
    /\ lastEvent.lang = "Ukrainian"
    /\ \E k, m \in 1..Len(cards) :
         /\ lastEvent.outcomes[k] = "error"
         /\ cards[k].content = ExpectedSections(lastEvent.files)[k].text
         /\ lastEvent.outcomes[m] = "text"
         /\ cards[m].content # ExpectedSections(lastEvent.files)[m].text


(***************************************************************************)
(* The chat (ChatSidebar in App.tsx, generateAIResponse in                 *)
(* geminiService.ts)                                                       *)
(***************************************************************************)
ChatInputs == { "", " ", "Explain this" }

\* chat events observed
MaxChatEvents == 6

\* the text of the generation service's response for a prompt
AnswerTo(userPrompt) == "Answer: " \o userPrompt

\* generateAIResponse: how the call ends, by throwing or by returning a text
generateAIResponse(userPrompt, key, outcome) ==
    IF ~key
    THEN [threw |-> TRUE, text |-> "API Key not found in environment variables."]
    ELSE IF outcome = "error"
    THEN [threw |-> FALSE,
          text |-> "Error generating response. Please check your API key and try again."]
    ELSE IF outcome = "empty"
    THEN [threw |-> FALSE, text |-> "I couldn't generate a response."]
    ELSE [threw |-> FALSE, text |-> AnswerTo(userPrompt)]

chatFrame ==
    UNCHANGED <<step, connections, selectedCardId, isProcessing,
                targetLanguage, inputText, upload, boardVars, apiKey,
                dragStart, alerts, nImports, parsed>>

ChatEvent(ev) ==
    /\ step # "UPLOAD"
    /\ nEvents < MaxChatEvents
    /\ nEvents' = nEvents + 1
    /\ lastEvent' = ev
    /\ chatFrame

\* the rest of handleSend once generateAIResponse has settled with `res`:
\* the model message on a return, nothing on a throw
AppendAnswer(history, res, thinking, t) ==
    IF res.threw THEN history
    ELSE Append(history, [id |-> ToString(t + 1), role |-> "model",
                          text |-> res.text, isThinking |-> thinking])

\* handleSend up to its await; without an API key generateAIResponse has
\* thrown by then, and the catch and finally run before any other event
handleSend ==
    IF Blank(input) \/ isLoading
    THEN UNCHANGED <<chatHistory, input, isLoading, chatReq, now>>
    ELSE \E t \in {now, now + 1} :
            LET userMsg == [id |-> ToString(t), role |-> "user", text |-> input]
            IN  /\ now' = t
                /\ input' = ""
                /\ IF ~apiKey
                   THEN /\ chatHistory' =
                             AppendAnswer(Append(chatHistory, userMsg),
                                          generateAIResponse(userMsg.text, apiKey, "error"),
                                          useThinking, t)
                        /\ isLoading' = FALSE
                        /\ UNCHANGED chatReq
                   ELSE /\ chatHistory' = Append(chatHistory, userMsg)
                        /\ isLoading' = TRUE
                        /\ chatReq' = Append(chatReq,
                               [userPrompt |-> userMsg.text,
                                useThinking |-> useThinking,
                                activeCard |-> selectedCardId,
                                instance |-> chatInstance])

\* setShowChat: hiding the sidebar unmounts the ChatSidebar and its state
setShowChat(b) ==
    /\ showChat' = b
    /\ IF showChat /\ ~b
       THEN /\ input' = ""
            /\ isLoading' = FALSE
            /\ useThinking' = FALSE
            /\ chatInstance' = chatInstance + 1
       ELSE UNCHANGED <<input, isLoading, useThinking, chatInstance>>

\* typing into the chat box
SetInput ==
    \E t \in ChatInputs :
        /\ showChat
        /\ input # t
        /\ ChatEvent([op |-> "input"])
        /\ input' = t
        /\ UNCHANGED <<cards, chatHistory, showChat, isLoading, useThinking,
                       chatInstance, chatReq, now>>

\* the send button, or Enter in the chat box
Send ==
    /\ showChat
    /\ ChatEvent([op |-> "send", text |-> input,
                  accepted |-> ~(Blank(input) \/ isLoading),
                  history |-> chatHistory, inFlight |-> Len(chatReq)])
    /\ handleSend
    /\ UNCHANGED <<cards, showChat, useThinking, chatInstance>>

\* the Deep-thinking checkbox
ToggleThinking ==
    /\ showChat
    /\ ChatEvent([op |-> "thinking"])
    /\ useThinking' = ~useThinking
    /\ UNCHANGED <<cards, chatHistory, showChat, input, isLoading, chatInstance,
                   chatReq, now>>

\* the AI Tutor button of the header
ToggleChat ==
    /\ ChatEvent([op |-> "toggleChat"])
    /\ setShowChat(~showChat)
    /\ UNCHANGED <<cards, chatHistory, chatReq, now>>

\* the close button of the sidebar
CloseChat ==
    /\ showChat
    /\ ChatEvent([op |-> "closeChat"])
    /\ setShowChat(FALSE)
    /\ UNCHANGED <<cards, chatHistory, chatReq, now>>

\* a generateAIResponse call in flight settles; handleSend resumes after
\* its await, in the ChatSidebar instance that made the call
GenerateResolved ==
    \E k \in 1..Len(chatReq), outcome \in SdkOutcomes, t \in {now, now + 1} :
        LET req == chatReq[k]
            res == generateAIResponse(req.userPrompt, apiKey, outcome)
        IN  /\ now' = t
            /\ chatHistory' = AppendAnswer(chatHistory, res, req.useThinking, t)
            /\ isLoading' = IF showChat /\ req.instance = chatInstance
                            THEN FALSE ELSE isLoading
            /\ chatReq' = [j \in 1..(Len(chatReq) - 1) |->
                              IF j < k THEN chatReq[j] ELSE chatReq[j + 1]]
            /\ lastEvent' = [op |-> "generated", prompt |-> req.userPrompt,
                             outcome |-> outcome, threw |-> res.threw]
            /\ UNCHANGED <<cards, showChat, input, useThinking, chatInstance, nEvents>>
            /\ chatFrame

\* handleAddCard: a card with the clock as id, to the right of the last card
handleAddCard(title, content, type) ==
    \E t \in {now, now + 1} :
        LET hasLast == Len(cards) > 0
            lastCard == cards[Len(cards)]
            newCard == [id |-> ToString(t),
                        title |-> title,
                        content |-> content,
                        x |-> IF hasLast
                              THEN RAdd(lastCard.x, R(lastCard.width + 100))
                              ELSE R(600),
                        y |-> IF hasLast THEN lastCard.y ELSE R(400),
                        width |-> 350,
                        height |-> 400,
                        type |-> type,
                        color |-> "#e0e7ff"]
        IN  /\ now' = t
            /\ cards' = Append(cards, newCard)

\* handleDragToWhiteboard
handleDragToWhiteboard(msg) == handleAddCard("AI Insight", msg.text, "ai-response")

\* "+ Add to Board" under a model message
AddToBoard ==
    \E k \in 1..Len(chatHistory) :
        /\ showChat
        /\ chatHistory[k].role = "model"
        /\ nEvents < MaxEvents
        /\ ChatEvent([op |-> "addToBoard", msg |-> k, cards |-> Len(cards)])
        /\ handleDragToWhiteboard(chatHistory[k])
        /\ UNCHANGED <<chatHistory, showChat, input, isLoading, useThinking,
                       chatInstance, chatReq>>

NextChat ==
    \/ AddToBoard
    \/ SetInput
    \/ Send
    \/ ToggleThinking
    \/ ToggleChat
    \/ CloseChat
    \/ GenerateResolved

InitChat ==
    /\ OpenedBoard
    /\ apiKey \in BOOLEAN

SpecChat == InitChat /\ [][NextChat]_vars

(***************************************************************************)
(* Claims about the chat                                                   *)
(***************************************************************************)
CountRole(history, role) ==
    Cardinality({ k \in 1..Len(history) : history[k].role = role })

\* C10: generateAIResponse returns a text whatever fails, so once no
\* request is in flight every user message of the chat history has been
\* answered by exactly one model message: there are as many model messages
\* as user messages, and no accepted send ends with the service throwing.
C10_EveryUserMessageAnswered ==
    chatReq = <<>> =>
        /\ CountRole(chatHistory, "model") = CountRole(chatHistory, "user")
        /\ (lastEvent.op = "send" /\ lastEvent.accepted) =>
               Len(chatHistory) = Len(lastEvent.history) + 2


(***************************************************************************)
(* parseMarkdownFile applied to every short text                           *)
(***************************************************************************)
MaxTextLen == 7

\* a markdown file one character longer is read and parsed
ParseMarkdown ==
    \E c \in Chars :
        /\ Len(parsed.text) < MaxTextLen
        /\ parsed' = ParsedFile(Append(parsed.text, c))
        /\ UNCHANGED <<appVars, upload, boardVars, chatVars, envVars,
                       lastEvent, dragStart, alerts, nEvents, nImports>>

NextMarkdown == ParseMarkdown

InitMarkdown ==
    /\ InitApp
    /\ apiKey = TRUE

SpecMarkdown == InitMarkdown /\ [][NextMarkdown]_vars


(***************************************************************************)
(* Claims about the markdown sections                                      *)
(***************************************************************************)
\* the indexes of the H1/H2 header lines, in order, from line i on
RECURSIVE HeaderIndexes(_, _)
HeaderIndexes(lines, i) ==
    IF i > Len(lines) THEN <<>>
    ELSE (IF IsHeaderLine(lines[i]) THEN << i >> ELSE <<>>)
         \o HeaderIndexes(lines, i + 1)

IsPrefix(p, str) == Len(p) <= Len(str) /\ SubSeq(str, 1, Len(p)) = p

\* some line precedes the first header line (a text always has a first line)
HasPreamble(lines) == ~IsHeaderLine(lines[1])

\* the number of sections is the number of header lines, plus one if a line
\* precedes the first header
SectionCountAsClaimed ==
    LET lines == SplitLines(parsed.text)
    IN  Len(parsed.sections) =
            Len(HeaderIndexes(lines, 1)) + (IF HasPreamble(lines) THEN 1 ELSE 0)

\* the section of the k-th header line
HeaderSection(lines, k) ==
    parsed.sections[IF HasPreamble(lines) THEN k + 1 ELSE k]

C12_CardIdsUnique ==
    \A k, m \in 1..Len(cards) : cards[k].id = cards[m].id => k = m


(***************************************************************************)
(* Claims about imports that store nothing                                 *)
(***************************************************************************)
NothingStored ==
    /\ cards = <<>>
    /\ connections = <<>>
    /\ step = "UPLOAD"
    /\ ~isProcessing
    /\ upload = IdleUpload

\* C13: when the extraction of a file of the batch has failed, the import
\* has ended with nothing stored: no card and no connection, those of the
\* files extracted before included, the step is UPLOAD and the processing
\* flag is cleared.
C13_FailedImportStoresNothing ==
    lastEvent.op = "importFailed" => NothingStored

\* the second file of a batch failed after three sections of the first
\* had been made into cards
C13_Witness ==
    /\ lastEvent.op = "importFailed"
    /\ lastEvent.files = << MdThree, BrokenPdf >>
    /\ lastEvent.discarded = 3
    /\ NothingStored
    /\ Len(alerts) > 0

NoValidContentAlert ==
    /\ Len(alerts) = lastEvent.alerts + 1
    /\ alerts[Len(alerts)] = "No valid content found in the uploaded files."

\* a completed import stored cards exactly when its batch has sections
ZeroCardsIffNoSections ==
    /\ lastEvent.op = "imported" => ExpectedSections(lastEvent.files) # <<>>
    /\ lastEvent.op = "importEmpty" => ExpectedSections(lastEvent.files) = <<>>

\* C14 as stated: an import that yields zero cards, an empty file
\* selection included, shows the 'no valid content' alert and stores nothing.
C14_ZeroCards_Original ==
    /\ ZeroCardsIffNoSections
    /\ lastEvent.op \in { "importEmpty", "noFiles" } =>
         NoValidContentAlert /\ NothingStored

\* C14: an import of at least one file that yields zero cards (only
\* unsupported files, or files without sections) shows the 'no valid
\* content' alert and stores nothing, the step staying UPLOAD and the
\* processing flag cleared; an empty file selection stores nothing either
\* and shows no alert.
C14_ZeroCards ==
    /\ ZeroCardsIffNoSections
    /\ lastEvent.op = "importEmpty" => NoValidContentAlert /\ NothingStored
    /\ lastEvent.op = "noFiles" =>
         Len(alerts) = lastEvent.alerts /\ NothingStored

\* a batch of one PDF with blank pages only has been imported
C14_Witness ==
    /\ lastEvent.op = "importEmpty"
    /\ lastEvent.files = << EmptyPdf >>
    /\ NoValidContentAlert
    /\ NothingStored


(***************************************************************************)
(* Claims about the pointer on the canvas                                  *)
(***************************************************************************)
\* the step handles a pointer-down on a card while connecting from a source
ConnectingPointerDown == lastEvent'.op = "mousedownCard" /\ connectingFromId # NULL

\* the step appends one connection from `fromId` to `toId`
ConnectionCreated(fromId, toId) ==
    /\ Len(connections') = Len(connections) + 1
    /\ SubSeq(connections', 1, Len(connections)) = connections
    /\ connections'[Len(connections')].fromCardId = fromId
    /\ connections'[Len(connections')].toCardId = toId

C17_PanFollowsPointer ==
    [][(lastEvent'.op = "mousemove" /\ isPanning) =>
          LET pt == lastEvent'.pt
          IN  /\ pan' = [x |-> RAdd(pan.x, RSub(R(pt.x), lastMousePos.x)),
                         y |-> RAdd(pan.y, RSub(R(pt.y), lastMousePos.y))]
              /\ lastMousePos' = [x |-> R(pt.x), y |-> R(pt.y)]
              /\ cards' = cards
              /\ scale' = scale
              /\ connections' = connections]_vars

PointerUp(ev) == ev.op \in { "mouseup", "mouseleave" }
PointerDown(ev) == ev.op \in { "mousedownCard", "mousedownBackground" }

\* C18: a pointer-up, or the pointer leaving the canvas, clears isDragging,
\* isPanning and the dragged-card reference and changes neither pan, scale,
\* cards nor connections; only a pointer-down sets isDragging or isPanning
\* again, and a pointer-move handled while both are false changes neither a
\* card nor the pan.
C18_PointerUpReturnsToIdle ==
    [][/\ PointerUp(lastEvent') =>
             /\ ~isDragging' /\ ~isPanning' /\ activeDragId' = NULL
             /\ pan' = pan /\ scale' = scale
             /\ cards' = cards /\ connections' = connections
       /\ ~PointerDown(lastEvent') =>
             /\ isDragging' => isDragging
             /\ isPanning' => isPanning
       /\ (lastEvent'.op = "mousemove" /\ ~isDragging /\ ~isPanning) =>
             (cards' = cards /\ pan' = pan)]_vars

\* a pan gesture has ended without moving, and the pointer-move to another
\* position that followed changed neither the pan nor a card
C18_Witness ==
    /\ lastEvent.op = "mousemove"
    /\ ~isDragging /\ ~isPanning /\ activeDragId = NULL
    /\ lastMousePos # [x |-> R(lastEvent.pt.x), y |-> R(lastEvent.pt.y)]
    /\ lastMousePos # [x |-> R(0), y |-> R(0)]
    /\ cards = BoardCards
    /\ pan = [x |-> R(0), y |-> R(0)]

\* C19: a pointer-down on the background, from any state, sets isPanning
\* with lastPointer at the pointer position and clears the connecting mode;
\* it creates no connection and changes no card, nor the selection, the pan
\* or the scale.
C19_BackgroundPointerDown ==
    [][lastEvent'.op = "mousedownBackground" =>
          /\ isPanning'
          /\ lastMousePos' = [x |-> R(lastEvent'.pt.x), y |-> R(lastEvent'.pt.y)]
          /\ connectingFromId' = NULL
          /\ connections' = connections
          /\ cards' = cards
          /\ selectedCardId' = selectedCardId
          /\ pan' = pan
          /\ scale' = scale]_vars

\* a pointer-down on the background has cancelled a connecting mode
C19_Witness ==
    /\ lastEvent.op = "mousedownBackground"
    /\ lastEvent.from # NULL
    /\ connectingFromId = NULL
    /\ isPanning
    /\ lastMousePos = [x |-> R(lastEvent.pt.x), y |-> R(lastEvent.pt.y)]
    /\ Len(connections) = Len(SequentialConnections(cards))

\* C20: a click on a card's link button makes that card the connecting
\* source, whatever the source was before, and it is handled only while
\* neither a drag nor a pan is active.
C20_LinkClickFromIdle ==
    [][lastEvent'.op = "linkClick" =>
          /\ connectingFromId' = cards[lastEvent'.card].id
          /\ ~isDragging
          /\ ~isPanning]_vars

(***************************************************************************)
(* Claims about the keyboard and about the drag state                      *)
(***************************************************************************)
InTextInput(ev) == ev.tagName \in { "INPUT", "TEXTAREA" }

\* C21: Escape pressed with the focus outside INPUT and TEXTAREA elements
\* sets connectingFromId to null and changes nothing else; an Escape or
\* arrow key pressed with the focus inside one changes no state of the
\* canvas: connecting mode, selection, pan and all the rest are kept.
C21_EscapeAndTextInputs ==
    [][lastEvent'.op = "keydown" =>
          /\ (lastEvent'.key = "Escape" /\ ~InTextInput(lastEvent')) =>
                /\ connectingFromId' = NULL
                /\ UNCHANGED <<cards, connections, selectedCardId, showChat,
                               isDragging, dragOffset, activeDragId, pan, scale,
                               isPanning, lastMousePos, isNavOpen>>
          /\ InTextInput(lastEvent') =>
                UNCHANGED <<cards, connections, selectedCardId, showChat,
                            boardVars>>]_vars

\* Escape outside a text input has just cancelled a connecting mode
C21_Witness ==
    /\ lastEvent.op = "keydown"
    /\ lastEvent.key = "Escape"
    /\ ~InTextInput(lastEvent)
    /\ lastEvent.connecting # NULL
    /\ connectingFromId = NULL

\* C26: isDragging is true exactly when activeDragId is not null, and an
\* activeDragId that is not null is the id of a card of the card store.
C26_DragStateConsistent ==
    /\ isDragging <=> activeDragId # NULL
    /\ activeDragId # NULL => \E k \in 1..Len(cards) : cards[k].id = activeDragId

\* the second card is being dragged and has been moved
C26_Witness ==
    /\ isDragging
    /\ Len(cards) >= 2
    /\ activeDragId = cards[2].id
    /\ lastEvent.op = "mousemove"
    /\ cards[2].x # dragStart.x

(***************************************************************************)
(* Claims about the step and the processing flag                           *)
(***************************************************************************)
\* C27: the step only changes from UPLOAD to ORGANIZE, never back, and
\* whenever the step is not UPLOAD the card store holds at least one card.
C27_StepForwardOnly ==
    /\ [][step' # step => step = "UPLOAD" /\ step' = "ORGANIZE"]_vars
    /\ [](step # "UPLOAD" => Len(cards) > 0)

\* a text import has opened the canvas with its single card
C27_Witness ==
    /\ step = "ORGANIZE"
    /\ lastEvent.op = "textImported"
    /\ Len(cards) = 1

ImportStarts == nImports' # nImports

\* C28: every import that has set the processing flag eventually clears it
\* (cards stored, zero cards, extraction failure, translation failure), and
\* an import is started only while the flag is clear and no import is in
\* progress, the flag being set exactly while one is.
C28_ProcessingFlagClears ==
    /\ isProcessing ~> ~isProcessing
    /\ [][ImportStarts => ~isProcessing /\ upload.pc = "idle"]_vars
    /\ [](isProcessing <=> upload.pc # "idle")

\* a second import has failed at an extraction and no longer processes
C28_Witness ==
    /\ nImports = 2
    /\ lastEvent.op = "importFailed"
    /\ ~isProcessing
    /\ upload.pc = "idle"


(***************************************************************************)
(* A click with the pointer on a card's link button (part_000 238-267)     *)
(***************************************************************************)
\* what the click gesture found when it began
GestureStart(k) ==
    [card |-> k, connections |-> connections, selected |-> selectedCardId,
     from |-> connectingFromId]

\* the pointer goes down on the link button of card k: the button has no
\* onMouseDown, the event bubbles to the card's
LinkPointerDown ==
    \E k \in 1..Len(cards), e \in Points :
        /\ CanvasEvent([op |-> "linkPointerDown", start |-> GestureStart(k)])
        /\ handleMouseDown(cards[k], e)

\* the pointer is released on the button: the event bubbles to the root
LinkPointerUp ==
    /\ lastEvent.op = "linkPointerDown"
    /\ CanvasEvent([op |-> "linkPointerUp", start |-> lastEvent.start])
    /\ handleMouseUp

\* the click that follows the release
LinkPointerClick ==
    /\ lastEvent.op = "linkPointerUp"
    /\ CanvasEvent([op |-> "linkPointerClick", start |-> lastEvent.start])
    /\ linkClick(cards[lastEvent.start.card])

\* pointer clicks on link buttons among the other pointer events on cards
\* and the background, and link buttons activated from the keyboard
NextLink ==
    \/ LinkPointerDown
    \/ LinkPointerUp
    \/ LinkPointerClick
    \/ LinkClick
    \/ MouseDownCard
    \/ MouseDownBackground
    \/ MouseUp

SpecLink == InitCanvas /\ [][NextLink]_vars

\* C23: a complete click on a card's link button (pointer-down, pointer-up
\* and click, the pointer-down reaching the card's handler) adds no
\* connection and leaves the selected card as it was, whether or not a
\* connecting source was set before; the card is the connecting source after.
C23_LinkClickOnlyConnects ==
    lastEvent.op = "linkPointerClick" =>
        /\ connections = lastEvent.start.connections
        /\ selectedCardId = lastEvent.start.selected
        /\ connectingFromId = cards[lastEvent.start.card].id


(***************************************************************************)
(* The canvas with insights promoted from the chat (App.tsx 198-229, 354,  *)
(* part_000 40-88)                                                         *)
(***************************************************************************)
\* the chat after two prompts, the first answered with a text, the second
\* with an empty response, one millisecond apart
AnsweredChat ==
    << [id |-> ToString(StartTime), role |-> "user", text |-> "Explain this"],
       [id |-> ToString(StartTime + 1), role |-> "model",
        text |-> generateAIResponse("Explain this", TRUE, "text").text,
        isThinking |-> FALSE],
       [id |-> ToString(StartTime + 1), role |-> "user", text |-> "Explain this"],
       [id |-> ToString(StartTime + 2), role |-> "model",
        text |-> generateAIResponse("Explain this", TRUE, "empty").text,
        isThinking |-> FALSE] >>

\* the chat of InitBoard is one the chat reaches
ChatAnsweredLikeThis ==
    /\ chatHistory = AnsweredChat
    /\ now = StartTime + 1
    /\ chatReq = <<>>
    /\ ~isLoading
    /\ input = ""
    /\ showChat

InitBoard ==
    /\ OpenedBoardWith(AnsweredChat, StartTime + 1)
    /\ apiKey = TRUE

NextBoard ==
    \/ AddToBoard
    \/ MouseDownCard
    \/ MouseMove
    \/ MouseUp
    \/ LinkClick
    \/ NavButtonClick

SpecBoard == InitBoard /\ [][NextBoard]_vars

\* what a drag may not change
Immutable(card) ==
    [id |-> card.id, width |-> card.width, height |-> card.height,
     title |-> card.title, content |-> card.content, type |-> card.type,
     color |-> card.color]

ChangedCards == { k \in 1..Len(cards) : cards'[k] # cards[k] }

\* C22: on the canvas no step removes or reorders a card or changes a
\* card's id, width, height, title, content, type or colour, whatever canvas
\* events and promotions of insights have been handled, and a pointer-move
\* changes at most one card, the dragged one, in x and y only.
C22_CardsOnlyMoveByDrag ==
    [][/\ Len(cards') >= Len(cards)
       /\ \A k \in 1..Len(cards) : Immutable(cards'[k]) = Immutable(cards[k])
       /\ lastEvent'.op = "mousemove" =>
             /\ Cardinality(ChangedCards) <= 1
             /\ \A k \in ChangedCards :
                    isDragging /\ k = findIndex(cards, activeDragId) + 1
       /\ lastEvent'.op # "mousemove" =>
             \A k \in 1..Len(cards) : cards'[k] = cards[k]]_vars

CardIds == { cards[k].id : k \in 1..Len(cards) }

\* C24: in every reachable state both ends of every connection are ids of
\* cards of the card store.
C24_ConnectionsReferenceCards ==
    \A k \in 1..Len(connections) :
        /\ connections[k].fromCardId \in CardIds
        /\ connections[k].toCardId \in CardIds

\* the user has linked the first card to a promoted insight
C24_Witness ==
    /\ Len(cards) > Len(BoardCards)
    /\ Len(connections) > 0
    /\ connections[Len(connections)].fromCardId = cards[1].id
    /\ connections[Len(connections)].toCardId = cards[Len(cards)].id
    /\ cards[Len(cards)].type = "ai-response"

\* C25: the selected card id is null or the id of a card of the card store.
C25_SelectionReferencesCard ==
    selectedCardId = NULL \/ selectedCardId \in CardIds

\* a promoted insight has been selected by a pointer-down on it
C25_Witness ==
    /\ Len(cards) > 0
    /\ cards[Len(cards)].type = "ai-response"
    /\ selectedCardId = cards[Len(cards)].id
    /\ lastEvent.op = "mousedownCard"


(***************************************************************************)
(* Claims about the requests of the chat                                   *)
(***************************************************************************)
\* C29: the chat has at most one generation request in flight; a send while
\* loading or with a blank input changes neither the history nor the
\* requests; and every model message of the history comes right after a
\* user message, the one that triggered it.
C29_OneRequestInFlight ==
    /\ Len(chatReq) <= 1
    /\ (lastEvent.op = "send" /\ ~lastEvent.accepted) =>
           /\ chatHistory = lastEvent.history
           /\ Len(chatReq) = lastEvent.inFlight
    /\ \A k \in 1..Len(chatHistory) :
           chatHistory[k].role = "model" =>
               k > 1 /\ chatHistory[k - 1].role = "user"

=============================================================================
